---- MODULE Spec2Model ----
(***************************************************************************)
(* Stratum V1 pool side of one connection:                                 *)
(*   open/protocols/stratum/sim/sim_primitives/stratum_v1/pool.py          *)
(* MiningSessionV1 (handshake state, authorize log) and PoolV1 (the        *)
(* per-connection message processor).  One action per handler; a handler   *)
(* runs to completion, its ordered effects are kept in `sent`, `bus` and   *)
(* `call` so that properties of one handler run are state predicates.      *)
(***************************************************************************)
EXTENDS Integers, Sequences, FiniteSets, TLC

\* ---------------------------------------------------------------- bounds
MaxReqId == 2
MaxJobs == 4
MaxTarget == 2
MaxBlocks == 2
MaxTime == 1
MaxAuth == 2

ReqIds == 1..MaxReqId
Targets == 1..MaxTarget
JobIds == 0..MaxJobs
Usernames == {"alice"}
OtherKinds == {"Configure", "Garbage"}

\* ------------------------------------------------------------- constants
\* MiningSessionV1.States: the value of each member of the enum
States(name) ==
    CASE name = "INIT" -> 0
      [] name = "CONFIGURED" -> 1
      [] name = "AUTHORIZED" -> 2
      [] name = "SUBSCRIBED" -> 3
      [] name = "RUNNING" -> 4

\* extranonce1=bytes([0] * 8)
extranonce1 == [i \in 1..8 |-> 0]
\* values the pool may be configured with for extranonce2_size
Extranonce2Sizes == {4, 8}
\* difficulty-1 target of the session's target-to-difficulty conversion
Diff1Target == 12

VARIABLES
    mining_session,      \* PoolV1.__mining_session: "session", or "None" if the pool gave none
    state,               \* MiningSessionV1.state
    authorize_requests,  \* MiningSessionV1.authorize_requests
    job_registry,        \* session.job_registry: sequence of jobs, uid = position
    curr_target,         \* session.curr_target
    prev_hash,           \* pool.prev_hash
    extranonce2_size,    \* pool.extranonce2_size
    now,                 \* env.now
    sent,                \* messages passed to _send_msg by the last handler, in order
    bus,                 \* trace records passed to bus.emit by the last handler
    call                 \* the last handler run: what was delivered and what it did

vars == <<mining_session, state, authorize_requests, job_registry, curr_target, prev_hash, extranonce2_size, now,
          sent, bus, call>>

\* ------------------------------------------------------ inbound messages
Subscribe(req_id) == [req_id |-> req_id, kind |-> "Subscribe"]
Authorize(req_id, username, password) ==
    [req_id |-> req_id, kind |-> "Authorize", username |-> username, password |-> password]
Submit(req_id, job_id) == [req_id |-> req_id, kind |-> "Submit", job_id |-> job_id]
OtherMessage(kind, req_id) == [req_id |-> req_id, kind |-> kind]
\* an event of the pool or of the session, delivered by a direct call at env.now
Event(kind) == [req_id |-> 0, kind |-> kind, at |-> now]

\* ----------------------------------------------------- outbound messages
SubscribeResponse(req_id, subscription_ids, en1, en2_size) ==
    [extranonce1 |-> en1, extranonce2_size |-> en2_size, req_id |-> req_id,
     subscription_ids |-> subscription_ids, type |-> "SubscribeResponse"]
OkResult(req_id) == [req_id |-> req_id, type |-> "OkResult"]
ErrorResult(req_id, code, msg) == [req_id |-> req_id, type |-> "ErrorResult", code |-> code, msg |-> msg]
SetDifficulty(diff) == [type |-> "SetDifficulty", diff |-> diff]
Notify(job_id, ph, time, clean_jobs) ==
    [prev_hash |-> ph, job_id |-> job_id, type |-> "Notify", time |-> time,
     clean_jobs |-> clean_jobs, coin_base_1 |-> "None", coin_base_2 |-> "None",
     merkle_branch |-> "None", version |-> "None", bits |-> "None"]

\* '...{}'.format(x): the template with x substituted for the placeholder
Format(template, x) == <<template, x>>

\* ------------------------------------------------ session and registry
\* session.curr_diff: difficulty that corresponds to the session's target
to_difficulty(target) == Diff1Target \div target

\* job_registry.new_mining_job(diff_target): a fresh job, uid never reused
new_mining_job(reg, target) ==
    Append(reg, [uid |-> Len(reg) + 1, diff_target |-> target, retired |-> FALSE])

\* job_registry.retire_all_jobs(): every job of the session becomes retired
retire_all_jobs(reg) == [i \in 1..Len(reg) |-> [reg[i] EXCEPT !.retired = TRUE]]

ActiveJobs(reg) == {i \in 1..Len(reg) : ~reg[i].retired}

Init ==
    /\ mining_session = "session"
    /\ state = "INIT"
    /\ authorize_requests = <<>>
    /\ job_registry = <<>>
    /\ curr_target \in Targets
    /\ prev_hash = 0
    /\ extranonce2_size \in Extranonce2Sizes
    /\ now = 0
    /\ sent = <<>>
    /\ bus = <<>>
    /\ call = [msg |-> Event("none"), pre_state |-> "INIT", pre_auth |-> <<>>,
               pre_jobs |-> <<>>, writes |-> <<>>, run_calls |-> 0, fault |-> "none",
               steps |-> <<>>, after_error |-> FALSE, changes |-> -1, responses |-> 0]

\* the processor as PoolV1.__init__ leaves it when pool.new_mining_session
\* gave it no session: the attribute is None and is never assigned again
InitNoSession ==
    /\ mining_session = "None"
    /\ state = "INIT"
    /\ authorize_requests = <<>>
    /\ job_registry = <<>>
    /\ curr_target \in Targets
    /\ prev_hash = 0
    /\ extranonce2_size \in Extranonce2Sizes
    /\ now = 0
    /\ sent = <<>>
    /\ bus = <<>>
    /\ call = [msg |-> Event("none"), pre_state |-> "INIT", pre_auth |-> <<>>,
               pre_jobs |-> <<>>, writes |-> <<>>, run_calls |-> 0, fault |-> "none",
               steps |-> <<>>, after_error |-> FALSE, changes |-> -1, responses |-> 0]

\* record of a handler run: what was delivered, the session as the handler found
\* it, the values it assigned to session.state in order, its calls of
\* session.run(), the exception that ended it, if any, and its effects on the
\* bus, the state and the connection in program order.  Three fields look back
\* over the connection: after_error (the handler run before this one sent an
\* ErrorResult), changes (difficulty changes handled since the last new chain
\* head, -1 before the first one) and responses (SubscribeResponses sent so
\* far, counted up to 2)
Call(msg, writes, run_calls, fault, steps) ==
    [msg |-> msg, pre_state |-> state, pre_auth |-> authorize_requests,
     pre_jobs |-> job_registry, writes |-> writes, run_calls |-> run_calls, fault |-> fault,
     steps |-> steps,
     after_error |-> \E i \in 1..Len(sent) : sent[i].type = "ErrorResult",
     changes |-> IF fault # "none" THEN call.changes
                 ELSE IF msg.kind = "NewBlock" THEN 0
                 ELSE IF msg.kind = "VardiffChange" /\ call.changes >= 0 THEN call.changes + 1
                 ELSE call.changes,
     responses |-> IF call.responses < 2 /\ \E i \in 1..Len(sent') : sent'[i].type = "SubscribeResponse"
                   THEN call.responses + 1
                   ELSE call.responses]

\* ------------------------------------------------------------ PoolV1
\* self.__mining_session(): the attribute holds the MiningSessionV1 instance
\* made in __init__; the class defines no __call__, so calling it raises this
\* exception ("returned" would be a call that gives the session back); None
\* is not callable either
call_mining_session == "TypeError"

\* the property PoolV1.mining_session: the assertion fails without a session
assert_mining_session == IF mining_session = "None" THEN "AssertionError" ELSE "returned"

\* mutant of build_mining_notify: the jobs are retired after the new job is made
build_mining_notify_retire_late(clean_jobs, reg, target, ph, time) ==
    LET made == new_mining_job(reg, target)
        job == made[Len(made)]
        after == IF clean_jobs THEN retire_all_jobs(made) ELSE made
    IN  [msg |-> Notify(job.uid, ph, time, clean_jobs), registry |-> after]

\* mutant of build_mining_notify: the jobs are retired whatever clean_jobs says
build_mining_notify_always_retires(clean_jobs, reg, target, ph, time) ==
    LET retired == retire_all_jobs(reg)
        after == new_mining_job(retired, target)
        job == after[Len(after)]
    IN  [msg |-> Notify(job.uid, ph, time, clean_jobs), registry |-> after]

\* PoolV1.__build_mining_notify(clean_jobs): the registry after the call and
\* the Notify returned
build_mining_notify(clean_jobs, reg, target, ph, time) ==
    LET retired == IF clean_jobs THEN retire_all_jobs(reg) ELSE reg
        after == new_mining_job(retired, target)
        job == after[Len(after)]
    IN  [msg |-> Notify(job.uid, ph, time, clean_jobs), registry |-> after]

\* MiningSessionV1.run(): the state it leaves
run_state == "RUNNING"

\* mutant of visit_subscribe: the session is not run after the response
visit_subscribe_no_run(msg) ==
    /\ bus' = <<[time |-> now, label |-> Format("SUBSCRIBE: {}", state), payload |-> msg]>>
    /\ IF state = "INIT" \/ state = "AUTHORIZED"
       THEN /\ sent' = <<SubscribeResponse(msg.req_id, "None", extranonce1, extranonce2_size)>>
            /\ state' = "SUBSCRIBED"
            /\ call' = Call(msg, <<"SUBSCRIBED">>, 0, "none", <<"emit", "set_state", "send">>)
       ELSE /\ sent' = <<ErrorResult(msg.req_id, -1,
                                     Format("Subscribe not expected when in: {}", state))>>
            /\ state' = state
            /\ call' = Call(msg, <<>>, 0, "none", <<"emit", "send">>)
    /\ UNCHANGED <<mining_session, authorize_requests, job_registry, curr_target, prev_hash, extranonce2_size, now>>

\* mutant of visit_subscribe: the refusal carries the code of another error
visit_subscribe_wrong_code(msg) ==
    /\ bus' = <<[time |-> now, label |-> Format("SUBSCRIBE: {}", state), payload |-> msg]>>
    /\ IF state = "INIT" \/ state = "AUTHORIZED"
       THEN /\ sent' = <<SubscribeResponse(msg.req_id, "None", extranonce1, extranonce2_size)>>
            /\ state' = run_state
            /\ call' = Call(msg, <<"SUBSCRIBED", run_state>>, 1, "none",
                         <<"emit", "set_state", "send", "run">>)
       ELSE /\ sent' = <<ErrorResult(msg.req_id, -2,
                                     Format("Subscribe not expected when in: {}", state))>>
            /\ state' = state
            /\ call' = Call(msg, <<>>, 0, "none", <<"emit", "send">>)
    /\ UNCHANGED <<mining_session, authorize_requests, job_registry, curr_target, prev_hash, extranonce2_size, now>>

\* mutant of visit_subscribe: the state test is missing, a subscribe is
\* accepted in every state
visit_subscribe_any_state(msg) ==
    /\ bus' = <<[time |-> now, label |-> Format("SUBSCRIBE: {}", state), payload |-> msg]>>
    /\ sent' = <<SubscribeResponse(msg.req_id, "None", extranonce1, extranonce2_size)>>
    /\ state' = run_state
    /\ call' = Call(msg, <<"SUBSCRIBED", run_state>>, 1, "none",
                         <<"emit", "set_state", "send", "run">>)
    /\ UNCHANGED <<mining_session, authorize_requests, job_registry, curr_target, prev_hash, extranonce2_size, now>>

\* mutant of visit_subscribe: after an error the connection is treated as
\* closed, the next subscribe is refused
visit_subscribe_closed_after_error(msg) ==
    /\ bus' = <<[time |-> now, label |-> Format("SUBSCRIBE: {}", state), payload |-> msg]>>
    /\ IF /\ state = "INIT" \/ state = "AUTHORIZED"
          /\ \A i \in 1..Len(sent) : sent[i].type # "ErrorResult"
       THEN /\ sent' = <<SubscribeResponse(msg.req_id, "None", extranonce1, extranonce2_size)>>
            /\ state' = run_state
            /\ call' = Call(msg, <<"SUBSCRIBED", run_state>>, 1, "none",
                         <<"emit", "set_state", "send", "run">>)
       ELSE /\ sent' = <<ErrorResult(msg.req_id, -1,
                                     Format("Subscribe not expected when in: {}", state))>>
            /\ state' = state
            /\ call' = Call(msg, <<>>, 0, "none", <<"emit", "send">>)
    /\ UNCHANGED <<mining_session, authorize_requests, job_registry, curr_target, prev_hash, extranonce2_size, now>>

\* mutant of visit_subscribe: the response carries a fixed extranonce2 size,
\* not the pool's
visit_subscribe_fixed_extranonce2(msg) ==
    /\ bus' = <<[time |-> now, label |-> Format("SUBSCRIBE: {}", state), payload |-> msg]>>
    /\ IF state = "INIT" \/ state = "AUTHORIZED"
       THEN /\ sent' = <<SubscribeResponse(msg.req_id, "None", extranonce1, 8)>>
            /\ state' = run_state
            /\ call' = Call(msg, <<"SUBSCRIBED", run_state>>, 1, "none",
                         <<"emit", "set_state", "send", "run">>)
       ELSE /\ sent' = <<ErrorResult(msg.req_id, -1,
                                     Format("Subscribe not expected when in: {}", state))>>
            /\ state' = state
            /\ call' = Call(msg, <<>>, 0, "none", <<"emit", "send">>)
    /\ UNCHANGED <<mining_session, authorize_requests, job_registry, curr_target, prev_hash, extranonce2_size, now>>

\* mutant of visit_subscribe: a refused subscribe puts the session back to INIT
visit_subscribe_reset_on_refusal(msg) ==
    /\ bus' = <<[time |-> now, label |-> Format("SUBSCRIBE: {}", state), payload |-> msg]>>
    /\ IF state = "INIT" \/ state = "AUTHORIZED"
       THEN /\ sent' = <<SubscribeResponse(msg.req_id, "None", extranonce1, extranonce2_size)>>
            /\ state' = run_state
            /\ call' = Call(msg, <<"SUBSCRIBED", run_state>>, 1, "none",
                         <<"emit", "set_state", "send", "run">>)
       ELSE /\ sent' = <<ErrorResult(msg.req_id, -1,
                                     Format("Subscribe not expected when in: {}", state))>>
            /\ state' = "INIT"
            /\ call' = Call(msg, <<"INIT">>, 0, "none", <<"emit", "send", "set_state">>)
    /\ UNCHANGED <<mining_session, authorize_requests, job_registry, curr_target, prev_hash, extranonce2_size, now>>

\* mutant of visit_subscribe: the session is run before the response is sent
\* and the trace record is written last, with the state the handler leaves
visit_subscribe_run_before_send(msg) ==
    /\ IF state = "INIT" \/ state = "AUTHORIZED"
       THEN /\ sent' = <<SubscribeResponse(msg.req_id, "None", extranonce1, extranonce2_size)>>
            /\ state' = run_state
            /\ bus' = <<[time |-> now, label |-> Format("SUBSCRIBE: {}", run_state), payload |-> msg]>>
            /\ call' = Call(msg, <<"SUBSCRIBED", run_state>>, 1, "none",
                         <<"set_state", "run", "send", "emit">>)
       ELSE /\ sent' = <<ErrorResult(msg.req_id, -1,
                                     Format("Subscribe not expected when in: {}", state))>>
            /\ state' = state
            /\ bus' = <<[time |-> now, label |-> Format("SUBSCRIBE: {}", state), payload |-> msg]>>
            /\ call' = Call(msg, <<>>, 0, "none", <<"send", "emit">>)
    /\ UNCHANGED <<mining_session, authorize_requests, job_registry, curr_target, prev_hash, extranonce2_size, now>>

\* PoolV1.visit_subscribe; it reads the attribute, not the property, so
\* without a session the first mining_session.state raises AttributeError
\* while the arguments of bus.emit are evaluated
visit_subscribe(msg) ==
    /\ IF mining_session = "None"
       THEN /\ bus' = <<>>
            /\ sent' = <<>>
            /\ state' = state
            /\ call' = Call(msg, <<>>, 0, "AttributeError", <<>>)
       ELSE /\ bus' = <<[time |-> now, label |-> Format("SUBSCRIBE: {}", state), payload |-> msg]>>
            /\ IF state = "INIT" \/ state = "AUTHORIZED"
               THEN /\ sent' = <<SubscribeResponse(msg.req_id, "None", extranonce1, extranonce2_size)>>
                    /\ state' = run_state
                    /\ call' = Call(msg, <<"SUBSCRIBED", run_state>>, 1, "none",
                                 <<"emit", "set_state", "send", "run">>)
               ELSE /\ sent' = <<ErrorResult(msg.req_id, -1,
                                             Format("Subscribe not expected when in: {}", state))>>
                    /\ state' = state
                    /\ call' = Call(msg, <<>>, 0, "none", <<"emit", "send">>)
    /\ UNCHANGED <<mining_session, authorize_requests, job_registry, curr_target, prev_hash, extranonce2_size, now>>

\* mutant of visit_authorize: the session is read, not called, and the
\* handler moves it to AUTHORIZED
visit_authorize_sets_state(msg) ==
    /\ Len(authorize_requests) < MaxAuth
    /\ authorize_requests' = Append(authorize_requests, msg)
    /\ bus' = <<[time |-> now, label |-> Format("AUTHORIZE: {}", state), payload |-> msg]>>
    /\ sent' = <<OkResult(msg.req_id)>>
    /\ state' = IF state = "INIT" THEN "AUTHORIZED" ELSE state
    /\ call' = Call(msg, IF state = "INIT" THEN <<"AUTHORIZED">> ELSE <<>>, 0, "none",
                    <<"emit", "set_state", "send">>)
    /\ UNCHANGED <<mining_session, job_registry, curr_target, prev_hash, extranonce2_size, now>>

\* PoolV1.visit_authorize
visit_authorize(msg) ==
    /\ IF call_mining_session # "returned"
       THEN /\ authorize_requests' = authorize_requests
            /\ bus' = <<>>
            /\ sent' = <<>>
            /\ call' = Call(msg, <<>>, 0, call_mining_session, <<>>)
       ELSE /\ Len(authorize_requests) < MaxAuth
            /\ authorize_requests' = Append(authorize_requests, msg)
            /\ bus' = <<[time |-> now, label |-> Format("AUTHORIZE: {}", state), payload |-> msg]>>
            /\ sent' = <<OkResult(msg.req_id)>>
            /\ call' = Call(msg, <<>>, 0, "none", <<"emit", "send">>)
    /\ UNCHANGED <<mining_session, state, job_registry, curr_target, prev_hash, extranonce2_size, now>>

\* pool.process_submit(job_id, session, on_accept, on_reject): the pool judges
\* the share and calls one of the two continuations
process_submit_outcomes == {"accept", "reject"}

\* PoolV1.visit_submit
visit_submit(msg) ==
    /\ IF call_mining_session # "returned"
       THEN /\ bus' = <<>>
            /\ sent' = <<>>
            /\ call' = Call(msg, <<>>, 0, call_mining_session, <<>>)
       ELSE /\ bus' = <<[time |-> now, label |-> Format("SUBMIT: {}", state), payload |-> msg]>>
            /\ \E outcome \in process_submit_outcomes :
                 sent' = IF outcome = "accept"
                         THEN <<OkResult(msg.req_id)>>
                         ELSE <<ErrorResult(msg.req_id, -3, "Too low difficulty")>>
            /\ call' = Call(msg, <<>>, 0, "none", <<"emit", "send">>)
    /\ UNCHANGED <<mining_session, state, authorize_requests, job_registry, curr_target, prev_hash, extranonce2_size, now>>

\* mutant of on_invalid_message: the error names no message and has the code
\* of a refused subscribe
on_invalid_message_wrong_error(msg) ==
    /\ sent' = <<ErrorResult(msg.req_id, -1, Format("Unrecognized message: {}", "None"))>>
    /\ bus' = <<>>
    /\ call' = Call(msg, <<>>, 0, "none", <<"send">>)
    /\ UNCHANGED <<mining_session, state, authorize_requests, job_registry, curr_target, prev_hash, extranonce2_size, now>>

\* PoolV1._on_invalid_message
on_invalid_message(msg) ==
    /\ sent' = <<ErrorResult(msg.req_id, -2, Format("Unrecognized message: {}", msg))>>
    /\ bus' = <<>>
    /\ call' = Call(msg, <<>>, 0, "none", <<"send">>)
    /\ UNCHANGED <<mining_session, state, authorize_requests, job_registry, curr_target, prev_hash, extranonce2_size, now>>

\* mutant of on_new_block: the body of _on_vardiff_change, with clean_jobs set
on_new_block_with_difficulty(reg, target, ph, time) ==
    LET n == build_mining_notify(TRUE, reg, target, ph, time)
    IN  [sent |-> <<SetDifficulty(to_difficulty(target)), n.msg>>, registry |-> n.registry]

\* PoolV1.on_new_block: the messages sent and the registry left, given the
\* chain head the pool has just moved to
on_new_block(reg, target, ph, time) ==
    LET n == build_mining_notify(TRUE, reg, target, ph, time)
    IN  [sent |-> <<n.msg>>, registry |-> n.registry]

\* mutant of on_vardiff_change: the job is announced before the difficulty
on_vardiff_change_notify_first(reg, target, ph, time) ==
    LET n == build_mining_notify(FALSE, reg, target, ph, time)
    IN  [sent |-> <<n.msg, SetDifficulty(to_difficulty(target))>>, registry |-> n.registry]

\* mutant of on_vardiff_change: the job is made at the session's difficulty,
\* not at its target
on_vardiff_change_job_at_difficulty(reg, target, ph, time) ==
    LET n == build_mining_notify(FALSE, reg, to_difficulty(target), ph, time)
    IN  [sent |-> <<SetDifficulty(to_difficulty(target)), n.msg>>, registry |-> n.registry]

\* PoolV1._on_vardiff_change(session), session being the one whose target
\* has just been set to `target`
on_vardiff_change(reg, target, ph, time) ==
    LET n == build_mining_notify(FALSE, reg, target, ph, time)
    IN  [sent |-> <<SetDifficulty(to_difficulty(target)), n.msg>>, registry |-> n.registry]

\* the pool finds a new chain head and tells the connection's processor
NewBlock ==
    /\ Len(job_registry) < MaxJobs
    /\ prev_hash < MaxBlocks
    /\ prev_hash' = prev_hash + 1
    /\ IF assert_mining_session # "returned"
       THEN /\ job_registry' = job_registry
            /\ sent' = <<>>
            /\ call' = Call(Event("NewBlock"), <<>>, 0, assert_mining_session, <<>>)
       ELSE LET r == on_new_block(job_registry, curr_target, prev_hash', now)
            IN  /\ job_registry' = r.registry
                /\ sent' = r.sent
                /\ call' = Call(Event("NewBlock"), <<>>, 0, "none", <<"send">>)
    /\ bus' = <<>>
    /\ UNCHANGED <<mining_session, state, authorize_requests, curr_target, extranonce2_size, now>>

\* the session's difficulty controller sets a new target and calls the
\* on_vardiff_change callback given to pool.new_mining_session
VardiffChange ==
    /\ Len(job_registry) < MaxJobs
    /\ \E t \in Targets \ {curr_target} :
         /\ curr_target' = t
         /\ LET r == on_vardiff_change(job_registry, t, prev_hash, now)
            IN  IF assert_mining_session # "returned"
                THEN /\ job_registry' = job_registry
                     /\ sent' = <<r.sent[1]>>
                     /\ call' = Call(Event("VardiffChange"), <<>>, 0, assert_mining_session,
                                     <<"send">>)
                ELSE /\ job_registry' = r.registry
                     /\ sent' = r.sent
                     /\ call' = Call(Event("VardiffChange"), <<>>, 0, "none", <<"send", "send">>)
    /\ bus' = <<>>
    /\ UNCHANGED <<mining_session, state, authorize_requests, prev_hash, extranonce2_size, now>>

\* env.now advances between two handler runs
Tick ==
    /\ now < MaxTime
    /\ now' = now + 1
    /\ UNCHANGED <<mining_session, state, authorize_requests, job_registry, curr_target, prev_hash, extranonce2_size,
                   sent, bus, call>>

RecvSubscribe == \E r \in ReqIds : visit_subscribe(Subscribe(r))
RecvAuthorize == \E r \in ReqIds, u \in Usernames : visit_authorize(Authorize(r, u, "pw"))
RecvSubmit == \E r \in ReqIds, j \in JobIds : visit_submit(Submit(r, j))
RecvOther == \E r \in ReqIds, k \in OtherKinds : on_invalid_message(OtherMessage(k, r))

Next ==
    \/ RecvSubscribe
    \/ RecvAuthorize
    \/ RecvSubmit
    \/ RecvOther
    \/ NewBlock
    \/ VardiffChange
    \/ Tick

Spec == Init /\ [][Next]_vars

\* the same processor, built without a session
SpecNoSession == InitNoSession /\ [][Next]_vars

\* ------------------------------------------------------------ properties
\* positions of the Notify messages among those the last handler sent
Notifies == {i \in 1..Len(sent) : sent[i].type = "Notify"}
\* the jobs the last handler found are still there, in place
KeptJobs == /\ Len(job_registry) >= Len(call.pre_jobs)
            /\ \A i \in 1..Len(call.pre_jobs) :
                 /\ job_registry[i].uid = call.pre_jobs[i].uid
                 /\ job_registry[i].diff_target = call.pre_jobs[i].diff_target

\* C1: a Subscribe handled in state INIT or AUTHORIZED succeeds: the handler
\* ends in RUNNING and has called the session's run() exactly once.
C1_SubscribeSucceeds ==
    (call.msg.kind = "Subscribe" /\ (call.pre_state = "INIT" \/ call.pre_state = "AUTHORIZED"))
        => /\ state = "RUNNING"
           /\ call.run_calls = 1
           /\ call.fault = "none"
           /\ Len(sent) = 1
           /\ sent[1].type = "SubscribeResponse"
           /\ sent[1].req_id = call.msg.req_id
C1_Witness ==
    /\ call.msg.kind = "Subscribe"
    /\ call.pre_state = "INIT"
    /\ state = "RUNNING"
    /\ call.run_calls = 1

\* C2: a Subscribe handled in any other state (RUNNING in particular) fails:
\* the state is unchanged, run() is not called, and the only message sent is
\* an ErrorResult with code -1 and the request id of the Subscribe.
C2_SubscribeRefused ==
    (call.msg.kind = "Subscribe" /\ ~(call.pre_state = "INIT" \/ call.pre_state = "AUTHORIZED"))
        => /\ state = call.pre_state
           /\ call.writes = <<>>
           /\ call.run_calls = 0
           /\ Len(sent) = 1
           /\ sent[1].type = "ErrorResult"
           /\ sent[1].code = -1
           /\ sent[1].req_id = call.msg.req_id
C2_Witness ==
    /\ call.msg.kind = "Subscribe"
    /\ call.pre_state = "RUNNING"
    /\ state = "RUNNING"
    /\ Len(sent) = 1
    /\ sent[1].type = "ErrorResult"

\* C3: an Authorize never fails, in any state and after any number n of
\* earlier ones: the log has length n+1 with the message last, the state is
\* unchanged and the reply is an OkResult with the request id of the Authorize.
C3_AuthorizeAppendsAndAcks ==
    call.msg.kind = "Authorize"
        => /\ call.fault = "none"
           /\ authorize_requests = Append(call.pre_auth, call.msg)
           /\ state = call.pre_state
           /\ sent = <<OkResult(call.msg.req_id)>>

\* C4: a difficulty change sends exactly two messages: a SetDifficulty, then a
\* Notify with clean_jobs = FALSE.
C4_VardiffOutput ==
    call.msg.kind = "VardiffChange"
        => /\ Len(sent) = 2
           /\ sent[1].type = "SetDifficulty"
           /\ sent[2].type = "Notify"
           /\ sent[2].clean_jobs = FALSE
C4_Witness ==
    /\ call.msg.kind = "VardiffChange"
    /\ Len(sent) = 2
    /\ sent[2].type = "Notify"
    /\ Len(call.pre_jobs) >= 1

\* C5: a Notify built with clean_jobs = TRUE, after k >= 0 jobs: the k earlier
\* jobs are all retired, and the one job not retired is the new one, whose id
\* the Notify carries.
C5_CleanJobs ==
    \A i \in Notifies :
        sent[i].clean_jobs
            => /\ Len(job_registry) = Len(call.pre_jobs) + 1
               /\ KeptJobs
               /\ \A j \in 1..Len(call.pre_jobs) : job_registry[j].retired
               /\ ActiveJobs(job_registry) = {Len(job_registry)}
               /\ job_registry[Len(job_registry)].uid = sent[i].job_id
               /\ \A j \in 1..Len(call.pre_jobs) : job_registry[j].uid # sent[i].job_id
C5_Witness ==
    /\ \E i \in Notifies : sent[i].clean_jobs
    /\ Cardinality(ActiveJobs(call.pre_jobs)) >= 2
    /\ ActiveJobs(job_registry) = {Len(job_registry)}
\* the case k = 0 of C5
C5_WitnessNoJobs ==
    /\ \E i \in Notifies : sent[i].clean_jobs
    /\ call.pre_jobs = <<>>
    /\ Len(job_registry) = 1

\* C6: a new chain head sends exactly one message, a Notify with
\* clean_jobs = TRUE, and no SetDifficulty.
C6_NewBlockOutput ==
    call.msg.kind = "NewBlock"
        => /\ Len(sent) = 1
           /\ sent[1].type = "Notify"
           /\ sent[1].clean_jobs = TRUE
           /\ \A i \in 1..Len(sent) : sent[i].type # "SetDifficulty"
C6_Witness ==
    /\ call.msg.kind = "NewBlock"
    /\ Len(sent) = 1
    /\ sent[1].type = "Notify"
    /\ sent[1].prev_hash = prev_hash

\* C7: a Submit gets exactly one response with its request id, an OkResult
\* (accepted) or an ErrorResult with code -3 (difficulty too low), and the
\* state is unchanged.
C7_SubmitOneResponse ==
    call.msg.kind = "Submit"
        => /\ Len(sent) = 1
           /\ sent[1].req_id = call.msg.req_id
           /\ \/ sent[1].type = "OkResult"
              \/ sent[1].type = "ErrorResult" /\ sent[1].code = -3
           /\ state = call.pre_state

\* C8: an unrecognized message m gets exactly one message back, an ErrorResult
\* with code -2 and m's request id whose text embeds m; state, authorize log
\* and jobs are unchanged.
C8_UnrecognizedMessage ==
    call.msg.kind \in OtherKinds
        => /\ Len(sent) = 1
           /\ sent[1].type = "ErrorResult"
           /\ sent[1].code = -2
           /\ sent[1].req_id = call.msg.req_id
           /\ sent[1].msg = Format("Unrecognized message: {}", call.msg)
           /\ state = call.pre_state
           /\ authorize_requests = call.pre_auth
           /\ job_registry = call.pre_jobs
C8_Witness ==
    /\ call.msg.kind \in OtherKinds
    /\ Len(sent) = 1
    /\ sent[1].type = "ErrorResult"
    /\ state = "RUNNING"
    /\ Len(job_registry) >= 1

\* every value a handler assigned to session.state is at or after the one
\* before it, starting from the state the handler found
RECURSIVE Ascending(_, _)
Ascending(from, writes) ==
    IF writes = <<>> THEN TRUE
    ELSE States(Head(writes)) >= States(from) /\ Ascending(Head(writes), Tail(writes))

\* C9: the state never moves backward in INIT < CONFIGURED < AUTHORIZED <
\* SUBSCRIBED < RUNNING, assignments inside a handler included, and once
\* RUNNING it stays RUNNING.
C9_StateNeverBackward ==
    [][/\ States(state') >= States(state)
       /\ (state = "RUNNING" => state' = "RUNNING")
       /\ (call' # call => Ascending(state, call'.writes))]_vars
C9_Witness ==
    /\ state = "RUNNING"
    /\ call.pre_state = "RUNNING"
    /\ call.msg.kind = "Subscribe"
    /\ Len(job_registry) >= 1

\* C10: no Notify is sent and no job is made while the session is not RUNNING,
\* whatever event or message arrives before a successful Subscribe.
C10_NoWorkBeforeRunning ==
    (Notifies # {} \/ Len(job_registry) > Len(call.pre_jobs))
        => call.pre_state = "RUNNING"

\* a message that came in over the connection (not an event)
IsInbound(m) ==
    \/ m.kind = "Subscribe"
    \/ m.kind = "Authorize"
    \/ m.kind = "Submit"
    \/ m.kind \in OtherKinds
\* the last handler sent an ErrorResult
ErrorSent == \E i \in 1..Len(sent) : sent[i].type = "ErrorResult"
\* s is a prefix of t
IsPrefix(s, t) == Len(s) <= Len(t) /\ \A i \in 1..Len(s) : s[i] = t[i]

\* C11: every inbound message (Subscribe, Authorize, Submit, unrecognized), in
\* every state, gets exactly one message back within its dispatch, and that
\* message carries its request id.
C11_OneResponsePerMessage ==
    IsInbound(call.msg)
        => /\ Len(sent) = 1
           /\ sent[1].req_id = call.msg.req_id

\* C12: an error is reported once and leaves the connection usable: the run
\* that sent an ErrorResult changed nothing in the session, the next message or
\* event is handled as its session state alone prescribes (a Subscribe in INIT
\* still succeeds), and no handler answers a message other than its own.
C12_ErrorsNotTerminal ==
    /\ ErrorSent
         => /\ state = call.pre_state
            /\ authorize_requests = call.pre_auth
            /\ job_registry = call.pre_jobs
            /\ Len(sent) = 1
    /\ \A i \in 1..Len(sent) :
         sent[i].type \in {"SubscribeResponse", "OkResult", "ErrorResult"}
            => IsInbound(call.msg) /\ sent[i].req_id = call.msg.req_id /\ Len(sent) = 1
    /\ call.after_error
         => /\ (call.msg.kind = "Subscribe" /\ call.pre_state = "INIT")
                 => /\ state = "RUNNING"
                    /\ Len(sent) = 1
                    /\ sent[1].type = "SubscribeResponse"
            /\ (call.msg.kind = "Subscribe" /\ call.pre_state = "RUNNING")
                 => /\ state = "RUNNING"
                    /\ Len(sent) = 1
                    /\ sent[1].type = "ErrorResult"
                    /\ sent[1].code = -1
            /\ call.msg.kind \in OtherKinds
                 => /\ Len(sent) = 1
                    /\ sent[1].type = "ErrorResult"
                    /\ sent[1].code = -2
            /\ (call.msg.kind = "Authorize" \/ call.msg.kind = "Submit")
                 => /\ call.fault = call_mining_session
                    /\ sent = <<>>
            /\ call.msg.kind = "NewBlock"
                 => /\ Len(sent) = 1
                    /\ sent[1].type = "Notify"
                    /\ Len(job_registry) = Len(call.pre_jobs) + 1
            /\ call.msg.kind = "VardiffChange"
                 => /\ Len(sent) = 2
                    /\ sent[2].type = "Notify"
                    /\ Len(job_registry) = Len(call.pre_jobs) + 1
C12_Witness ==
    /\ call.after_error
    /\ call.msg.kind = "Subscribe"
    /\ call.pre_state = "INIT"
    /\ state = "RUNNING"
    /\ Len(sent) = 1
    /\ sent[1].type = "SubscribeResponse"

\* C13: session.state changes only in a successful subscribe: no other
\* handler run and no event assigns it.
C13_StateOnlyBySubscribe ==
    [][(state' # state \/ (call' # call /\ call'.writes # <<>>))
          => /\ call' # call
             /\ call'.msg.kind = "Subscribe"
             /\ state = "INIT" \/ state = "AUTHORIZED"
             /\ call'.run_calls = 1
             /\ state' = "RUNNING"]_vars
C13_Witness ==
    /\ call.msg.kind = "Authorize"
    /\ call.pre_state = "RUNNING"
    /\ state = "RUNNING"
    /\ call.writes = <<>>

C15_NoSessionRefuses ==
    (/\ mining_session = "None"
     /\ \/ call.msg.kind = "Subscribe"
        \/ call.msg.kind = "Authorize"
        \/ call.msg.kind = "Submit"
        \/ call.msg.kind = "NewBlock"
        \/ call.msg.kind = "VardiffChange")
        => /\ call.fault = "AssertionError"
           /\ sent = <<>>
           /\ bus = <<>>
           /\ state = call.pre_state
           /\ authorize_requests = call.pre_auth
           /\ job_registry = call.pre_jobs

\* C16: the response to a successful Subscribe is a SubscribeResponse with the
\* request id of the Subscribe, no subscription ids, an extranonce1 of exactly
\* 8 zero bytes, and the extranonce2 size the pool is configured with.
C16_SubscribeResponseContent ==
    (call.msg.kind = "Subscribe" /\ call.run_calls = 1)
        => /\ Len(sent) = 1
           /\ sent[1].type = "SubscribeResponse"
           /\ sent[1].req_id = call.msg.req_id
           /\ sent[1].subscription_ids = "None"
           /\ Len(sent[1].extranonce1) = 8
           /\ \A i \in 1..8 : sent[1].extranonce1[i] = 0
           /\ sent[1].extranonce2_size = extranonce2_size
C16_Witness ==
    /\ call.msg.kind = "Subscribe"
    /\ call.run_calls = 1
    /\ sent[1].type = "SubscribeResponse"
    /\ extranonce2_size = 4
    /\ sent[1].extranonce2_size = 4

\* C17: on a difficulty change the SetDifficulty carries the session's new
\* difficulty, the Notify after it announces a job made by this event at the
\* session's new target, and no Notify comes before the SetDifficulty.
C17_DifficultyBeforeWork ==
    call.msg.kind = "VardiffChange"
        => /\ Len(sent) = 2
           /\ sent[1] = SetDifficulty(to_difficulty(curr_target))
           /\ Notifies = {2}
           /\ \E j \in 1..Len(job_registry) :
                /\ j > Len(call.pre_jobs)
                /\ job_registry[j].uid = sent[2].job_id
                /\ job_registry[j].diff_target = curr_target
           /\ \A j \in 1..Len(call.pre_jobs) : job_registry[j].uid # sent[2].job_id
C17_Witness ==
    /\ call.msg.kind = "VardiffChange"
    /\ Len(call.pre_jobs) >= 1
    /\ call.pre_jobs[Len(call.pre_jobs)].diff_target # curr_target
    /\ sent[1] = SetDifficulty(to_difficulty(curr_target))
    /\ job_registry[Len(job_registry)].diff_target = curr_target

\* C18: a difficulty change (clean_jobs = FALSE) retires no job and adds one:
\* the jobs found are unchanged, the non-retired ones are one more, and after
\* k difficulty changes since the last new chain head there are k+1 of them.
C18_VardiffExtendsJobs ==
    /\ call.msg.kind = "VardiffChange"
         => /\ sent[2].clean_jobs = FALSE
            /\ Len(job_registry) = Len(call.pre_jobs) + 1
            /\ \A j \in 1..Len(call.pre_jobs) : job_registry[j] = call.pre_jobs[j]
            /\ ActiveJobs(job_registry) = ActiveJobs(call.pre_jobs) \cup {Len(job_registry)}
            /\ Cardinality(ActiveJobs(job_registry)) = Cardinality(ActiveJobs(call.pre_jobs)) + 1
    /\ call.changes >= 0
         => Cardinality(ActiveJobs(job_registry)) = call.changes + 1
C18_Witness ==
    /\ call.msg.kind = "VardiffChange"
    /\ call.changes = 2
    /\ Cardinality(ActiveJobs(job_registry)) = 3
    /\ \E j \in 1..Len(job_registry) : job_registry[j].retired

\* C19: the session state is always INIT, SUBSCRIBED or RUNNING, CONFIGURED
\* and AUTHORIZED are never assigned; a SubscribeResponse is sent only from
\* INIT, at most once on a connection, and every Subscribe after it is
\* answered with ErrorResult code -1.
C19_ReachableStates ==
    /\ state = "INIT" \/ state = "SUBSCRIBED" \/ state = "RUNNING"
    /\ \A i \in 1..Len(call.writes) :
         call.writes[i] = "SUBSCRIBED" \/ call.writes[i] = "RUNNING"
    /\ \A i \in 1..Len(sent) :
         sent[i].type = "SubscribeResponse"
            => call.msg.kind = "Subscribe" /\ call.pre_state = "INIT"
    /\ call.responses <= 1
    /\ call.responses = 1 => state = "RUNNING"
    /\ (call.msg.kind = "Subscribe" /\ call.pre_state # "INIT")
         => /\ Len(sent) = 1
            /\ sent[1].type = "ErrorResult"
            /\ sent[1].code = -1
            /\ call.responses = 1
C19_Witness ==
    /\ call.responses = 1
    /\ call.msg.kind = "Subscribe"
    /\ call.pre_state = "RUNNING"
    /\ sent[1].type = "ErrorResult"
    /\ sent[1].code = -1
    /\ Len(authorize_requests) = 0

\* C20: a successful subscribe writes the trace record with the state it found,
\* then sets SUBSCRIBED, then sends the SubscribeResponse, then runs the
\* session (RUNNING), so no Notify precedes the response; between two handler
\* runs the state is INIT or RUNNING, never SUBSCRIBED.
C20_SubscribeStepOrder ==
    /\ (call.msg.kind = "Subscribe" /\ call.run_calls >= 1)
         => /\ call.steps = <<"emit", "set_state", "send", "run">>
            /\ Len(bus) = 1
            /\ bus[1].label = Format("SUBSCRIBE: {}", call.pre_state)
            /\ bus[1].payload = call.msg
            /\ call.writes = <<"SUBSCRIBED", "RUNNING">>
            /\ sent[1].type = "SubscribeResponse"
            /\ Notifies = {}
    /\ state = "INIT" \/ state = "RUNNING"
C20_Witness ==
    /\ call.msg.kind = "Subscribe"
    /\ call.steps = <<"emit", "set_state", "send", "run">>
    /\ bus[1].label = Format("SUBSCRIBE: {}", "INIT")
    /\ call.writes = <<"SUBSCRIBED", "RUNNING">>
    /\ state = "RUNNING"

====
